---- MODULE Spec2Model ----
(***************************************************************************)
(* Model of the coverage gate of poweredbygrow/coverage_tools:             *)
(*   get_diff_coverage.py / fail_on_coverage.py      (dialect "A", jacoco) *)
(*   get_diff_coverage2.py / fail_on_coverage2.py (dialect "B", cobertura) *)
(* Python floats are IEEE-754 binary64; they are modelled bit-exactly as   *)
(* dyadic rationals (an odd mantissa given as a bit sequence, and a binary *)
(* exponent), every operation rounding to 53 bits, ties to even.           *)
(***************************************************************************)
EXTENDS Integers, Sequences, FiniteSets, TLC

(***************************************************************************)
(* binary64 arithmetic                                                     *)
(***************************************************************************)
\* number of significand bits of a Python float (sys.float_info.mant_dig)
MantDig == 53

Zero == [m |-> <<>>, e |-> 0]

Zeros(k) == [i \in 1..k |-> 0]

\* the bit string b without its leading zeros
StripLeading(b) ==
  IF \A i \in 1..Len(b) : b[i] = 0 THEN <<>>
  ELSE SubSeq(b, CHOOSE i \in 1..Len(b) :
                   b[i] = 1 /\ \A j \in 1..(i - 1) : b[j] = 0, Len(b))

\* the number of zeros that end the bit string b (b holds a one)
TrailingZeros(b) ==
  CHOOSE z \in 0..(Len(b) - 1) :
    b[Len(b) - z] = 1 /\ \A j \in 0..(z - 1) : b[Len(b) - j] = 0

\* canonical form of the value b * 2^e: odd mantissa without leading zeros
Norm(b, e) ==
  LET s == StripLeading(b) IN
  IF s = <<>> THEN Zero
  ELSE LET z == TrailingZeros(s)
       IN  [m |-> SubSeq(s, 1, Len(s) - z), e |-> e + z]

RECURSIVE IntToBits(_)
IntToBits(n) == IF n = 0 THEN <<>> ELSE Append(IntToBits(n \div 2), n % 2)

RECURSIVE BitsToInt(_)
BitsToInt(b) ==
  IF b = <<>> THEN 0
  ELSE 2 * BitsToInt(SubSeq(b, 1, Len(b) - 1)) + b[Len(b)]

RECURSIVE Pow2(_)
Pow2(k) == IF k = 0 THEN 1 ELSE 2 * Pow2(k - 1)

\* float(n) for a small non-negative int n (exact)
FromInt(n) == Norm(IntToBits(n), 0)

\* the bit string of (value of b) + 1
Inc(b) ==
  IF \A i \in 1..Len(b) : b[i] = 1 THEN <<1>> \o Zeros(Len(b))
  ELSE LET k == CHOOSE i \in 1..Len(b) :
                  b[i] = 0 /\ \A j \in (i + 1)..Len(b) : b[j] = 1
       IN  [i \in 1..Len(b) |-> IF i < k THEN b[i] ELSE IF i = k THEN 1 ELSE 0]

\* round b * 2^e (plus a positive remainder below the last bit when sticky)
\* to MantDig significant bits, ties to even
RoundNearestEven(b0, e, sticky) ==
  LET b == StripLeading(b0) IN
  IF Len(b) <= MantDig THEN Norm(b, e)
  ELSE LET keep  == SubSeq(b, 1, MantDig)
           guard == b[MantDig + 1]
           st    == sticky \/ \E i \in (MantDig + 2)..Len(b) : b[i] = 1
           up    == guard = 1 /\ (st \/ keep[MantDig] = 1)
       IN  Norm(IF up THEN Inc(keep) ELSE keep, e + Len(b) - MantDig)

\* A bit string is processed eight bits at a time: its bytes (most
\* significant first, the string padded with leading zeros), and the eight
\* bits of a byte.
ToBytes(b) ==
  LET p == Zeros((8 - (Len(b) % 8)) % 8) \o b
  IN  [i \in 1..(Len(p) \div 8) |->
         128 * p[8 * i - 7] + 64 * p[8 * i - 6] + 32 * p[8 * i - 5]
         + 16 * p[8 * i - 4] + 8 * p[8 * i - 3] + 4 * p[8 * i - 2]
         + 2 * p[8 * i - 1] + p[8 * i]]

Byte8(v) ==
  << (v \div 128) % 2, (v \div 64) % 2, (v \div 32) % 2, (v \div 16) % 2,
     (v \div 8) % 2, (v \div 4) % 2, (v \div 2) % 2, v % 2 >>

\* schoolbook long division of the bytes B (then of appended zero bytes) by
\* the int n, until the quotient has MantDig + 2 significant bits or the
\* remainder is 0
RECURSIVE LongDiv(_, _, _, _, _, _)
LongDiv(B, i, r, n, q, extra) ==
  IF i > Len(B) /\ (r = 0 \/ Len(StripLeading(q)) >= MantDig + 2)
  THEN [q |-> q, extra |-> extra, r |-> r]
  ELSE LET t == 256 * r + (IF i <= Len(B) THEN B[i] ELSE 0)
       IN  LongDiv(B, i + 1, t % n, n, q \o Byte8(t \div n),
                   IF i <= Len(B) THEN extra ELSE extra + 1)

\* x / n for a float x >= 0 and an int n > 0 (Python: x / n)
FDiv(x, n) ==
  IF x = Zero THEN Zero
  ELSE LET d == LongDiv(ToBytes(x.m), 1, 0, n, <<>>, 0)
       IN  RoundNearestEven(d.q, x.e - 8 * d.extra, d.r # 0)

RECURSIVE MulBytes(_, _, _, _)
MulBytes(B, i, carry, n) ==
  IF i = 0 THEN IntToBits(carry)
  ELSE LET t == B[i] * n + carry
       IN  MulBytes(B, i - 1, t \div 256, n) \o Byte8(t % 256)

MulBits(m, n) == LET B == ToBytes(m) IN MulBytes(B, Len(B), 0, n)

\* the exact product x * n, and the float product (Python: x * n)
MulExact(x, n) == Norm(MulBits(x.m, n), x.e)
FMul(x, n) == RoundNearestEven(MulBits(x.m, n), x.e, FALSE)

\* the mantissas of x and y over their common least exponent, equal lengths
Align(x, y) ==
  LET e0 == IF x.e < y.e THEN x.e ELSE y.e
      bx == x.m \o Zeros(x.e - e0)
      by == y.m \o Zeros(y.e - e0)
      L  == IF Len(bx) > Len(by) THEN Len(bx) ELSE Len(by)
  IN  [e |-> e0, x |-> Zeros(L - Len(bx)) \o bx, y |-> Zeros(L - Len(by)) \o by]

\* a < b for bit strings of one length
LexLess(a, b) ==
  \E i \in 1..Len(a) : a[i] < b[i] /\ \A j \in 1..(i - 1) : a[j] = b[j]

\* x < y on the exact values (Python: x < y)
Less(x, y) == LET a == Align(x, y) IN LexLess(a.x, a.y)
LessEq(x, y) == ~Less(y, x)

RECURSIVE SubBytes(_, _, _, _)
SubBytes(A, B, i, borrow) ==
  IF i = 0 THEN <<>>
  ELSE LET t == A[i] - B[i] - borrow
       IN  SubBytes(A, B, i - 1, IF t < 0 THEN 1 ELSE 0)
           \o Byte8(IF t < 0 THEN t + 256 ELSE t)

SubBits(a, b) == LET A == ToBytes(a) IN SubBytes(A, ToBytes(b), Len(A), 0)

\* x - y for x >= y: exactly, and as a float (Python: x - y)
SubExact(x, y) == LET a == Align(x, y) IN Norm(SubBits(a.x, a.y), a.e)
FSub(x, y) ==
  LET a == Align(x, y) IN RoundNearestEven(SubBits(a.x, a.y), a.e, FALSE)

\* the integer part of x >= 0, and whether x has a fractional part
Floor(x) ==
  IF x.e >= 0 THEN BitsToInt(x.m) * Pow2(x.e)
  ELSE IF Len(x.m) <= -x.e THEN 0
  ELSE BitsToInt(SubSeq(x.m, 1, Len(x.m) + x.e))
HasFraction(x) == x.e < 0

\* math.ceil(x) for a float x >= 0
Ceil(x) == IF HasFraction(x) THEN Floor(x) + 1 ELSE Floor(x)

Half == [m |-> <<1>>, e |-> -1]

\* the integer nearest to y >= 0, a tie going to the even one
RoundHalfEvenInt(y) ==
  LET f    == Floor(y)
      frac == SubExact(y, FromInt(f))
  IN  IF Less(frac, Half) THEN f
      ELSE IF Less(Half, frac) THEN f + 1
      ELSE IF f % 2 = 0 THEN f ELSE f + 1

\* round(x, 4) for a float x >= 0: the float nearest to the decimal with
\* four places that is nearest to the exact value of x
Round4(x) == FDiv(FromInt(RoundHalfEvenInt(MulExact(x, 10000))), 10000)

(***************************************************************************)
(* text: a string is a sequence of one-character strings                   *)
(***************************************************************************)
Digits == <<"0", "1", "2", "3", "4", "5", "6", "7", "8", "9">>

Min(S) == CHOOSE x \in S : \A y \in S : x <= y

\* the k-th least element of the set P of ints
Kth(P, k) == CHOOSE n \in P : Cardinality({m \in P : m <= n}) = k

DigitVal(c) == CHOOSE d \in 0..9 : Digits[d + 1] = c

\* int(cs) for a string of decimal digits
RECURSIVE ParseInt(_)
ParseInt(cs) ==
  IF cs = <<>> THEN 0
  ELSE 10 * ParseInt(SubSeq(cs, 1, Len(cs) - 1)) + DigitVal(cs[Len(cs)])

\* str(n) for an int n >= 0
RECURSIVE FormatInt(_)
FormatInt(n) ==
  IF n < 10 THEN <<Digits[n + 1]>>
  ELSE FormatInt(n \div 10) \o <<Digits[(n % 10) + 1]>>

\* Python's None and a value that may be None: the empty sequence, and the
\* one-element sequence of the value
None == <<>>
Some(x) == <<x>>

\* the hunk summary git prints for a hunk: "@@ -<old> +<start>[,<count>] @@";
\* a count of None stands for the omitted count
HunkRange(start, count) ==
  FormatInt(start)
  \o (IF count = None THEN <<>> ELSE <<",">> \o FormatInt(count[1]))

HunkSummary(old, oldCount, start, count) ==
  <<"@", "@", " ", "-">> \o HunkRange(old, oldCount) \o <<" ", "+">>
  \o HunkRange(start, count) \o <<" ", "@", "@">>

\* re.search(r"\@\@.*?\+(.+?) \@\@", s): s[p..] opens with "@@", s[q] is the
\* "+" and s[j..] is the " @@" that closes group 1
SummaryMatch(s, p, q, j) ==
  /\ p + 1 <= Len(s) /\ s[p] = "@" /\ s[p + 1] = "@"
  /\ q >= p + 2 /\ s[q] = "+"
  /\ j >= q + 2 /\ j + 2 <= Len(s)
  /\ s[j] = " " /\ s[j + 1] = "@" /\ s[j + 2] = "@"

\* group(1) of the leftmost match, each lazy quantifier taking the least
SummaryGroup(s) ==
  LET I  == 1..Len(s)
      p0 == Min({p \in I : \E q \in I, j \in I : SummaryMatch(s, p, q, j)})
      q0 == Min({q \in I : \E j \in I : SummaryMatch(s, p0, q, j)})
      j0 == Min({j \in I : SummaryMatch(s, p0, q0, j)})
  IN  SubSeq(s, q0 + 1, j0 - 1)

\* _get_lines_changed with a range of at least one line
_get_lines_changed_nonempty(line_summary) ==
  LET lines == SummaryGroup(line_summary) IN
  IF \E k \in 1..Len(lines) : lines[k] = ","
  THEN LET c     == CHOOSE k \in 1..Len(lines) : lines[k] = ","
           start == ParseInt(SubSeq(lines, 1, c - 1))
           count == ParseInt(SubSeq(lines, c + 1, Len(lines)))
       IN  IF count = 0 THEN <<start>> ELSE [k \in 1..count |-> start + k - 1]
  ELSE <<ParseInt(lines)>>

\* _get_lines_changed(line_summary)
_get_lines_changed(line_summary) ==
  LET lines == SummaryGroup(line_summary) IN
  IF \E k \in 1..Len(lines) : lines[k] = ","
  THEN LET c     == CHOOSE k \in 1..Len(lines) : lines[k] = ","
           start == ParseInt(SubSeq(lines, 1, c - 1))
           count == ParseInt(SubSeq(lines, c + 1, Len(lines)))
       IN  [k \in 1..count |-> start + k - 1]
  ELSE <<ParseInt(lines)>>

\* chain.from_iterable of a sequence of lists
RECURSIVE Chain(_)
Chain(ls) == IF ls = <<>> THEN <<>> ELSE Head(ls) \o Chain(Tail(ls))

\* _parse_file_diff(diff): a file diff is given by the path of its
\* "+++ b/<path>" line (None when it has none, as for a deleted file) and by
\* its hunk summaries, the matches of "@@.*?@@" in their order
_parse_file_diff(file_diff) ==
  IF file_diff.name = None THEN None
  ELSE Some([file |-> file_diff.name,
             lines_changed |->
               Chain([k \in 1..Len(file_diff.summaries) |->
                        _get_lines_changed(file_diff.summaries[k])])])

\* _parse_diff(diff): diff is the sequence of the file diffs of the text;
\* the results that are None are dropped
_parse_diff(diff) ==
  Chain([k \in 1..Len(diff) |-> _parse_file_diff(diff[k])])

(***************************************************************************)
(* the coverage report                                                     *)
(***************************************************************************)
\* A path is the sequence of its "/"-separated segments.  The file names of
\* the model that hold ".java", and those that hold ".py":
JavaNames == {"Foo.java", "FooTest.java"}
PyNames == {"models.py", "test_models.py", "six.py", "setup.py"}

IGNORED_PACKAGES == {".venv", "target"}

\* re.search(r"(.*?)/src/.*?/((?:com|ca)/.*)\/(.*?\.java)", file): segment i
\* is the first "src" that a match can use, segment j the first "com" or "ca"
\* after it, with a segment between them and a package segment after j
FileInfoA(file) ==
  LET n == Len(file)
      J(i) == {j \in (i + 2)..(n - 2) : file[j] \in {"com", "ca"}}
      I == {i \in 2..n : file[i] = "src" /\ J(i) # {}}
  IN  IF file[n] \notin JavaNames \/ I = {} THEN None
      ELSE Some([group     |-> file[Min(I) - 1],
                 package   |-> SubSeq(file, Min(J(Min(I))), n - 1),
                 file_name |-> file[n]])

\* re.search(r"(.*)\/(.*\.py)", file)
FileInfoB(file) ==
  LET n == Len(file) IN
  IF n < 2 \/ file[n] \notin PyNames THEN None
  ELSE Some([package |-> SubSeq(file, 1, n - 1), file_name |-> file[n]])

\* tree.find(lookup): the first element of the report with the coordinates
Find(tree, coord) ==
  LET K == {k \in 1..Len(tree) : tree[k].coord = coord}
  IN  IF K = {} THEN None ELSE Some(tree[Min(K)])

\* the results of _get_coverage_map: None, the list [], a dict, or the
\* AttributeError of source_tree.find("lines").findall
CovNone == [kind |-> "None", map |-> <<>>]
CovList == [kind |-> "list", map |-> <<>>]
CovDict(f) == [kind |-> "dict", map |-> f]
CovRaise == [kind |-> "AttributeError", map |-> <<>>]

\* line in coverage_map
InMap(line, coverage_map) ==
  coverage_map.kind = "dict" /\ line \in DOMAIN coverage_map.map

Max(S) == CHOOSE x \in S : \A y \in S : x >= y

\* the jacoco rule: no missed instruction and no missed branch
CoveredA(line) == line.mi = <<"0">> /\ line.mb = <<"0">>

\* the cobertura rule of get_diff_coverage2
CoveredB(line) == line.hits = <<"1">>

\* the dict filled by the loop over the line elements: a later element of a
\* line number replaces an earlier one
LineMapA(ls) ==
  [n \in {ParseInt(ls[k].nr) : k \in 1..Len(ls)} |->
     CoveredA(ls[Max({k \in 1..Len(ls) : ParseInt(ls[k].nr) = n})])]

LineMapB(ls) ==
  [n \in {ParseInt(ls[k].number) : k \in 1..Len(ls)} |->
     CoveredB(ls[Max({k \in 1..Len(ls) : ParseInt(ls[k].number) = n})])]

\* _get_coverage_map(tree, file) of get_diff_coverage.py.  An element of the
\* report has its coordinates, its line elements and the number of its other
\* children; an element is false when it has no child.
CoverageMapA(tree, file) ==
  IF Len(file) = 1 THEN CovNone
  ELSE LET file_info == FileInfoA(file) IN
       IF file_info = None THEN CovNone
       ELSE LET i == file_info[1]
                source_tree == Find(tree, <<i.group, i.package, i.file_name>>)
            IN  IF source_tree = None
                   \/ Len(source_tree[1].lines) + source_tree[1].others = 0
                THEN CovList
                ELSE CovDict(LineMapA(source_tree[1].lines))

\* _get_coverage_map(tree, file) of get_diff_coverage2.py.  The line elements
\* of a class are the children of its <lines> child, which is None when the
\* class has no such child.
CoverageMapB(tree, file) ==
  IF (Len(file) > 1 /\ file[1] \in IGNORED_PACKAGES) \/ Len(file) = 1
  THEN CovNone
  ELSE LET file_info == FileInfoB(file) IN
       IF file_info = None THEN CovNone
       ELSE LET i == file_info[1]
                source_tree == Find(tree, <<i.package, i.file_name>>)
            IN  IF source_tree = None
                   \/ Len(source_tree[1].lines) + source_tree[1].others = 0
                THEN CovList
                ELSE IF source_tree[1].lines = None THEN CovRaise
                ELSE CovDict(LineMapB(source_tree[1].lines[1]))

_get_coverage_map(dialect, tree, file) ==
  IF dialect = "A" THEN CoverageMapA(tree, file) ELSE CoverageMapB(tree, file)

(***************************************************************************)
(* reconciliation, threshold and result                                    *)
(***************************************************************************)
\* Counter(): a key that is not there counts 0
NoStats == [covered |-> 0, uncovered |-> 0, ignored |-> 0]

\* CountLine with the two values of the map taken for each other
CountLineSwapped(line_stats, line, coverage_map) ==
  IF ~InMap(line, coverage_map)
  THEN [line_stats EXCEPT !.ignored = @ + 1]
  ELSE IF coverage_map.map[line]
       THEN [line_stats EXCEPT !.uncovered = @ + 1]
       ELSE [line_stats EXCEPT !.covered = @ + 1]

\* one pass of the loop of _reconcile_coverage
CountLine(line_stats, line, coverage_map) ==
  IF ~InMap(line, coverage_map)
  THEN [line_stats EXCEPT !.ignored = @ + 1]
  ELSE IF coverage_map.map[line]
       THEN [line_stats EXCEPT !.covered = @ + 1]
       ELSE [line_stats EXCEPT !.uncovered = @ + 1]

\* AddStats as the assignment line_stats = file_stats[...]
AddStatsAssign(a, b) == b

\* line_stats += file_stats[...]
AddStats(a, b) ==
  [covered   |-> a.covered + b.covered,
   uncovered |-> a.uncovered + b.uncovered,
   ignored   |-> a.ignored + b.ignored]

\* the passes of the loop of _reconcile_coverage over lines[lo..hi], from
\* left to right; the range is halved to keep the evaluation shallow, the
\* counts of the two halves add up as the loop's increments do
RECURSIVE ReconcileRange(_, _, _, _)
ReconcileRange(lines, lo, hi, coverage_map) ==
  IF lo > hi THEN NoStats
  ELSE IF lo = hi THEN CountLine(NoStats, lines[lo], coverage_map)
  ELSE LET mid == (lo + hi) \div 2
       IN  AddStats(ReconcileRange(lines, lo, mid, coverage_map),
                    ReconcileRange(lines, mid + 1, hi, coverage_map))

\* _reconcile_coverage taking the lines of a file without coverage data for
\* uncovered lines
_reconcile_coverage_uncovered(change, coverage_map) ==
  IF coverage_map.kind = "list"
  THEN [covered |-> 0, uncovered |-> Len(change.lines_changed), ignored |-> 0]
  ELSE ReconcileRange(change.lines_changed, 1, Len(change.lines_changed),
                      coverage_map)

\* _reconcile_coverage(change, coverage_map)
_reconcile_coverage(change, coverage_map) ==
  ReconcileRange(change.lines_changed, 1, Len(change.lines_changed),
                 coverage_map)

\* get_coverage giving 0 for a diff without attributable lines
get_coverage_zero(line_stats) ==
  LET denominator == line_stats.covered + line_stats.uncovered IN
  IF denominator = 0 THEN Some(Zero)
  ELSE Some(FDiv(FromInt(line_stats.covered), denominator))

\* get_coverage(line_stats)
get_coverage(line_stats) ==
  LET denominator == line_stats.covered + line_stats.uncovered IN
  IF denominator = 0 THEN None
  ELSE Some(FDiv(FromInt(line_stats.covered), denominator))

\* 0.75, the target of a diff with few uncovered lines
LeniencyTarget == FDiv(FromInt(75), 100)

\* the number of uncovered lines up to which the leniency applies
LeniencyLines == 5

\* get_target_diff_coverage with the leniency ending at the fifth uncovered
\* line
get_target_diff_coverage_fewer(current_coverage, line_stats) ==
  IF line_stats.uncovered >= LeniencyLines THEN current_coverage
  ELSE LeniencyTarget

\* get_target_diff_coverage(current_coverage, line_stats)
get_target_diff_coverage(current_coverage, line_stats) ==
  IF line_stats.uncovered > LeniencyLines THEN current_coverage
  ELSE LeniencyTarget

\* get_required_lines_for_coverage(target_coverage, total_coverage, line_stats),
\* called with total_coverage < target_coverage
get_required_lines_for_coverage(target_coverage, total_coverage, line_stats) ==
  LET missing_coverage == FSub(target_coverage, total_coverage)
      line_count == line_stats.covered + line_stats.uncovered
  IN  Ceil(FMul(missing_coverage, line_count))

(***************************************************************************)
(* the run of fail_on_coverage.main / fail_on_coverage2.main               *)
(***************************************************************************)
VARIABLES
  args,             \* what the run reads: dialect, override_threshold,
                    \* polls (the responses of GitLab to get_results, one
                    \* after the other; a coverage is given in
                    \* hundredths), head (the totals of HEAD's report), diff
                    \* (the file diffs of git diff), report (its elements),
                    \* content (the number of lines of a changed file)
  pc,               \* "start", "poll", "main", "diff", "reconcile",
                    \* "decide", "exit"
  statuses,         \* get_latest_coverage: statuses
  waiting,          \* get_latest_coverage: waiting
  polled,           \* the number of responses get_results has read
  latest,           \* None or what get_latest_coverage returned
  coverage,         \* main: coverage of the reference commit, percent
  current_coverage, \* main: coverage of HEAD, percent
  diff_changes,     \* get_diff_coverage: the parsed diff
  idx,              \* get_diff_coverage: index of the next change, 0
                    \* before get_diff_coverage is called
  file_stats,       \* get_diff_coverage: file -> Counter
  line_stats,       \* get_diff_coverage: the aggregate Counter
  total_coverage,   \* get_diff_coverage: fraction
  target_coverage,  \* get_diff_coverage: fraction
  message,          \* get_diff_coverage: None or the failure message
  diff_coverage,    \* main: the first value get_diff_coverage returns
  target_percent,   \* main: the percentage diff_coverage is compared with
  printed,          \* main: None or what print(message) printed
  raised,           \* None or the uncaught exception
  exit_code         \* None or the exit status of the process

vars == <<args, pc, statuses, waiting, polled, latest, coverage,
          current_coverage, diff_changes, idx, file_stats,
          line_stats, total_coverage, target_coverage, message, diff_coverage,
          target_percent, printed, raised, exit_code>>

\* the variables of get_latest_coverage
pollvars == <<statuses, waiting, polled, latest>>

\* get_exact_coverage(jacoco_index_html): the "Total" bar reads
\* "<missed> of <total>"
get_exact_coverage(head) ==
  IF head.total = 0 THEN FromInt(100)
  ELSE FMul(FSub(FromInt(1), FDiv(FromInt(head.missed), head.total)), 100)

\* get_total_coverage(coverage_xml): line-rate is head / 10000
get_total_coverage(head) == FMul(FDiv(FromInt(head), 10000), 100)

\* the float of a decimal given in hundredths
Hundredths(n) == FDiv(FromInt(n), 100)

\* is_before_coverage taking every job for a job before the coverage
is_before_coverage_any(commit_status) == TRUE

\* is_before_coverage(commit_status): the names are "coverage", "test" and
\* "build"
is_before_coverage(commit_status) == commit_status.name \in {"test", "coverage"}

\* is_running(commit)
is_running(commit) == commit.status = "running"

\* has_coverage(commit); fail_on_coverage asks for "coverage" in the name too
has_coverage(dialect, commit) ==
  /\ dialect = "A" => commit.name = "coverage"
  /\ commit.status = "success"
  /\ commit.coverage # None

\* the subsequence [s for s in statuses if has_coverage(s)]
RECURSIVE Matching(_, _)
Matching(dialect, ss) ==
  IF ss = <<>> THEN <<>>
  ELSE (IF has_coverage(dialect, Head(ss)) THEN <<Head(ss)>> ELSE <<>>)
       \o Matching(dialect, Tail(ss))

\* LatestOf taking the first of the list
LatestOfUnsorted(matching_statuses) == matching_statuses[1]

\* sorted(matching_statuses, key=created_at)[-1]: the sort is stable, so of
\* the statuses created last the one that comes last
LatestOf(matching_statuses) ==
  LET I == 1..Len(matching_statuses)
      T == Max({matching_statuses[k].created_at : k \in I})
  IN  matching_statuses[Max({k \in I : matching_statuses[k].created_at = T})]

\* the response get_results reads next; GitLab goes on with its last answer
NextResponse == args.polls[IF polled < Len(args.polls) THEN polled + 1
                           ELSE Len(args.polls)]

\* raise Exception(...) in the main thread
Raise ==
  /\ raised' = Some("Exception")
  /\ exit_code' = Some(1)
  /\ pc' = "exit"

\* main up to the first get_results of get_latest_coverage, which is not
\* called when an override threshold is given
CallLatest ==
  /\ pc = "start"
  /\ LET override ==
           /\ args.override_threshold # None
           /\ Hundredths(args.override_threshold[1]) # Zero
     IN  IF override
         THEN /\ pc' = "main"
              /\ UNCHANGED <<statuses, polled, raised, exit_code>>
         ELSE /\ polled' = 1
              /\ IF NextResponse.status_code # 200
                 THEN Raise /\ UNCHANGED statuses
                 ELSE /\ statuses' = NextResponse.json
                      /\ pc' = "poll"
                      /\ UNCHANGED <<raised, exit_code>>
  /\ waiting' = FALSE
  /\ UNCHANGED <<args, latest, coverage, current_coverage, diff_changes, idx,
                 file_stats, line_stats, total_coverage, target_coverage,
                 message, diff_coverage, target_percent, printed>>

\* one pass of the loop of get_latest_coverage, and its return
Poll ==
  /\ pc = "poll"
  /\ LET matching_statuses == Matching(args.dialect, statuses) IN
     IF matching_statuses # <<>>
     THEN /\ latest' = Some(LatestOf(matching_statuses).coverage[1])
          /\ pc' = "main"
          /\ UNCHANGED <<statuses, waiting, polled, raised, exit_code>>
     ELSE IF \E k \in 1..Len(statuses) :
               is_before_coverage(statuses[k]) /\ is_running(statuses[k])
     THEN /\ waiting' = TRUE
          /\ polled' = IF polled < Len(args.polls) THEN polled + 1 ELSE polled
          /\ IF NextResponse.status_code # 200
             THEN Raise /\ UNCHANGED statuses
             ELSE /\ statuses' = NextResponse.json
                  /\ UNCHANGED <<pc, raised, exit_code>>
          /\ UNCHANGED latest
     ELSE Raise /\ UNCHANGED <<statuses, waiting, polled, latest>>
  /\ UNCHANGED <<args, coverage, current_coverage, diff_changes, idx,
                 file_stats, line_stats, total_coverage, target_coverage,
                 message, diff_coverage, target_percent, printed>>

\* main, up to the comparison of the two coverages
Main ==
  /\ pc = "main"
  /\ LET override_threshold ==
           IF args.override_threshold = None THEN None
           ELSE Some(Hundredths(args.override_threshold[1]))
         \* "if override_threshold:" is false for None and for 0.0
         override == override_threshold # None /\ override_threshold[1] # Zero
         cov == Round4(IF override THEN override_threshold[1]
                       ELSE Hundredths(latest[1]))
         cur == Round4(IF args.dialect = "A" THEN get_exact_coverage(args.head)
                       ELSE get_total_coverage(args.head))
     IN  /\ coverage' = cov
         /\ current_coverage' = cur
         /\ IF Less(cur, cov) /\ ~override
            THEN pc' = "diff" /\ exit_code' = None
            ELSE pc' = "exit" /\ exit_code' = Some(0)
  /\ UNCHANGED pollvars
  /\ UNCHANGED <<args, diff_changes, idx, file_stats, line_stats,
                 total_coverage, target_coverage, message, diff_coverage,
                 target_percent, printed, raised>>

\* get_diff_coverage, up to the loop over the changes
ParseDiff ==
  /\ pc = "diff"
  /\ diff_changes' = _parse_diff(args.diff)
  /\ idx' = 1
  /\ file_stats' = <<>>
  /\ line_stats' = NoStats
  /\ pc' = "reconcile"
  /\ UNCHANGED pollvars
  /\ UNCHANGED <<args, coverage, current_coverage, total_coverage,
                 target_coverage, message, diff_coverage, target_percent,
                 printed, raised, exit_code>>

\* file_stats[file] = stats
SetStats(stats_of, file, stats) ==
  [f \in DOMAIN stats_of \cup {file} |->
     IF f = file THEN stats ELSE stats_of[f]]

\* Attributable taking every lookup result for a coverage map
AttributableAlways(coverage_map) == TRUE

\* "coverage_map is not None"
Attributable(coverage_map) == coverage_map.kind # "None"

\* one pass of the loop of get_diff_coverage over diff_changes
ReconcileChange ==
  /\ pc = "reconcile"
  /\ idx <= Len(diff_changes)
  /\ LET change == diff_changes[idx]
         coverage_map == _get_coverage_map(args.dialect, args.report, change.file)
     IN  IF coverage_map.kind = "AttributeError"
         THEN /\ raised' = Some("AttributeError")
              /\ exit_code' = Some(1)
              /\ pc' = "exit"
              /\ UNCHANGED <<idx, file_stats, line_stats>>
         ELSE /\ IF Attributable(coverage_map)
                 THEN LET stats == _reconcile_coverage(change, coverage_map)
                      IN  /\ file_stats' = SetStats(file_stats, change.file, stats)
                          /\ line_stats' = AddStats(line_stats, stats)
                 ELSE UNCHANGED <<file_stats, line_stats>>
              /\ idx' = idx + 1
              /\ UNCHANGED <<pc, raised, exit_code>>
  /\ UNCHANGED pollvars
  /\ UNCHANGED <<args, coverage, current_coverage, diff_changes,
                 total_coverage, target_coverage, message, diff_coverage,
                 target_percent, printed>>

\* the line_stats of get_diff_coverage after its loop over changes[k..], for
\* changes whose lookups raise nothing
RECURSIVE AggregateFrom(_, _, _, _, _)
AggregateFrom(dialect, tree, changes, k, totals) ==
  IF k > Len(changes) THEN totals
  ELSE LET change == changes[k]
           coverage_map == _get_coverage_map(dialect, tree, change.file)
       IN  AggregateFrom(dialect, tree, changes, k + 1,
             IF Attributable(coverage_map)
             THEN AddStats(totals, _reconcile_coverage(change, coverage_map))
             ELSE totals)

Aggregate(dialect, tree, changes) ==
  AggregateFrom(dialect, tree, changes, 1, NoStats)

\* the list untested_lines of get_untested_line_info(diff_changes,
\* coverage_report, buffer): an entry for each change whose coverage map is
\* not None
\* range(max(0, line - buffer), min(len(content), line + buffer + 1))
Window(line, buffer, content) ==
  LET lo == IF line - buffer > 0 THEN line - buffer ELSE 0
      hi == IF content < line + buffer + 1 THEN content ELSE line + buffer + 1
  IN  lo..(hi - 1)

\* the loop of get_lines_to_display (in get_diff_coverage.py, of
\* get_file_message) from the k-th uncovered line on: the numbers of a window
\* that are not yet in lines_to_display are appended in ascending order;
\* content is len(content), the number of lines of the file
RECURSIVE DisplayFrom(_, _, _, _, _)
DisplayFrom(uncovered_lines, k, buffer, content, lines_to_display) ==
  IF k > Len(uncovered_lines) THEN lines_to_display
  ELSE LET old == {lines_to_display[i] : i \in 1..Len(lines_to_display)}
           new == Window(uncovered_lines[k], buffer, content) \ old
       IN  DisplayFrom(uncovered_lines, k + 1, buffer, content,
                       lines_to_display
                         \o [q \in 1..Cardinality(new) |-> Kth(new, q)])

get_lines_to_display(uncovered_lines, buffer, content) ==
  DisplayFrom(uncovered_lines, 1, buffer, content, <<>>)

RECURSIVE UntestedFrom(_, _, _, _, _, _)
UntestedFrom(dialect, tree, changes, k, buffer, content) ==
  IF k > Len(changes) THEN <<>>
  ELSE LET change == changes[k]
           coverage_map == _get_coverage_map(dialect, tree, change.file)
           lines == change.lines_changed
           U == {p \in 1..Len(lines) :
                   InMap(lines[p], coverage_map) /\ ~coverage_map.map[lines[p]]}
           uncovered_lines == [q \in 1..Cardinality(U) |-> lines[Kth(U, q)]]
       IN  (IF coverage_map.kind = "None" THEN <<>>
            ELSE <<[file |-> change.file,
                    lines_changed |-> lines,
                    uncovered_lines |-> uncovered_lines,
                    lines_to_display |->
                      get_lines_to_display(uncovered_lines, buffer, content)]>>)
           \o UntestedFrom(dialect, tree, changes, k + 1, buffer, content)

\* get_untested_line_info(diff_changes, coverage_report, buffer): the files
\* it renders with get_file_message, each of content lines
get_untested_line_info(dialect, tree, changes, buffer, content) ==
  UntestedFrom(dialect, tree, changes, 1, buffer, content)

\* the buffer get_diff_coverage asks for
Buffer == 4

\* get_diff_coverage after the loop, and the unpacking of its result in main
Evaluate ==
  /\ pc = "reconcile"
  /\ idx > Len(diff_changes)
  /\ LET current == FDiv(coverage, 100)
         got     == get_coverage(line_stats)
         total   == IF got = None THEN FromInt(1) ELSE got[1]
         target  == IF args.dialect = "A"
                    THEN get_target_diff_coverage(current, line_stats)
                    ELSE current
     IN  /\ total_coverage' = total
         /\ target_coverage' = target
         /\ message' =
              IF Less(total, target)
              THEN Some([lines_required |->
                           get_required_lines_for_coverage(target, total, line_stats),
                         coverage |-> FMul(total, 100),
                         target |-> FMul(target, 100),
                         untested |->
                           get_untested_line_info(args.dialect, args.report,
                                                  diff_changes, Buffer,
                                                  args.content)])
              ELSE None
         /\ diff_coverage' = FMul(total, 100)
         /\ target_percent' = IF args.dialect = "A" THEN FMul(target, 100)
                              ELSE coverage
  /\ pc' = "decide"
  /\ UNCHANGED pollvars
  /\ UNCHANGED <<args, coverage, current_coverage, diff_changes, idx,
                 file_stats, line_stats, printed, raised, exit_code>>

Ten == FromInt(10)

\* TenPointDrop firing at a drop of exactly 10 points
TenPointDropInclusive(current, reference) ==
  IF Less(reference, Ten) THEN FALSE ELSE LessEq(current, FSub(reference, Ten))

\* current_coverage < coverage - 10, for current_coverage >= 0: the
\* difference is negative when coverage < 10
TenPointDrop(current, reference) ==
  IF Less(reference, Ten) THEN FALSE ELSE Less(current, FSub(reference, Ten))

\* main after get_diff_coverage
Decide ==
  /\ pc = "decide"
  /\ IF Less(diff_coverage, target_percent)
     THEN printed' = Some(message) /\ exit_code' = Some(1)
     ELSE /\ printed' = None
          /\ exit_code' = IF TenPointDrop(current_coverage, coverage)
                          THEN Some(1) ELSE Some(0)
  /\ pc' = "exit"
  /\ UNCHANGED pollvars
  /\ UNCHANGED <<args, coverage, current_coverage, diff_changes, idx,
                 file_stats, line_stats, total_coverage, target_coverage,
                 message, diff_coverage, target_percent, raised>>

Next == CallLatest \/ Poll \/ Main \/ ParseDiff \/ ReconcileChange \/ Evaluate \/ Decide

\* the state before main runs
Start(a) ==
  /\ args = a
  /\ pc = "start"
  /\ statuses = <<>>
  /\ waiting = FALSE
  /\ polled = 0
  /\ latest = None
  /\ coverage = Zero
  /\ current_coverage = Zero
  /\ diff_changes = <<>>
  /\ idx = 0
  /\ file_stats = <<>>
  /\ line_stats = NoStats
  /\ total_coverage = Zero
  /\ target_coverage = Zero
  /\ message = None
  /\ diff_coverage = Zero
  /\ target_percent = Zero
  /\ printed = None
  /\ raised = None
  /\ exit_code = None

(***************************************************************************)
(* the inputs of the runs that are checked                                 *)
(***************************************************************************)
\* the response of GitLab with one successful coverage job reporting value
Reported(value) ==
  <<[status_code |-> 200,
     json |-> <<[name |-> "coverage", status |-> "success",
                 coverage |-> Some(value), created_at |-> 1]>>]>>

\* the greatest line number of a report, and the most file diffs of a diff
MaxLine == 2
MaxFiles == 2

\* paths of changed files: the first of each set is found in the report
\* under test, the second is a test file that reports do not list, and
\* _get_coverage_map returns None for the others
SourceA == <<"api", "src", "main", "java", "com", "grow", "Foo.java">>
TestA == <<"api", "src", "test", "java", "com", "grow", "FooTest.java">>
SourceB == <<"app", "models.py">>
TestB == <<"tests", "test_models.py">>

Paths(dialect) ==
  IF dialect = "A"
  THEN {SourceA, TestA, <<"README.md">>, <<"api", "build.gradle">>}
  ELSE {SourceB, TestB, <<"setup.py">>, <<".venv", "lib", "six.py">>,
        <<"templates", "info.html">>}

CoordA == <<"api", <<"com", "grow">>, "Foo.java">>
CoordB == <<<<"app">>, "models.py">>

\* the hunk summaries of a file diff: "+1,<MaxLine + 1>" (one line more than
\* a report has), "+2", "+1" then "+1,2" (line 1 twice), "+3,0" (no line)
SummariesSmall ==
  { <<HunkSummary(1, None, 1, Some(MaxLine + 1))>>,
    <<HunkSummary(1, Some(0), 2, None)>>,
    <<HunkSummary(1, None, 1, None), HunkSummary(4, Some(2), 1, Some(2))>>,
    <<HunkSummary(2, Some(3), 3, Some(0))>> }

FileDiffs(dialect) ==
  [name : Paths(dialect), summaries : SummariesSmall]

\* the file diffs whose only hunk is "+1,<MaxLine + 1>"
PlainDiffs(dialect) ==
  [name : Paths(dialect),
   summaries : {<<HunkSummary(1, None, 1, Some(MaxLine + 1))>>}]

\* the diffs: no file diff, any one file diff, or up to MaxFiles plain file
\* diffs, each of another file
Diffs(dialect) ==
  {<<>>}
  \cup {<<d>> : d \in FileDiffs(dialect)}
  \cup UNION { {q \in [1..k -> PlainDiffs(dialect)] :
                  \A i, j \in 1..k : i # j => q[i].name # q[j].name} :
               k \in 2..MaxFiles }

\* what a report can say of a line: nothing (None), or the attributes of its
\* line element
AttrsA == { [mi |-> <<"0">>, mb |-> <<"0">>], [mi |-> <<"3">>, mb |-> <<"0">>],
            [mi |-> <<"0">>, mb |-> <<"1">>] }
AttrsB == { [hits |-> <<"0">>], [hits |-> <<"1">>], [hits |-> <<"2">>] }

\* the line elements, by ascending number, of the lines f says something of
LinesA(f) ==
  LET P == {n \in DOMAIN f : f[n] # None} IN
  [k \in 1..Cardinality(P) |->
     [nr |-> FormatInt(Kth(P, k)), mi |-> f[Kth(P, k)][1].mi,
      mb |-> f[Kth(P, k)][1].mb]]

LinesB(f) ==
  LET P == {n \in DOMAIN f : f[n] # None} IN
  [k \in 1..Cardinality(P) |->
     [number |-> FormatInt(Kth(P, k)), hits |-> f[Kth(P, k)][1].hits]]

Optional(S) == {None} \cup {Some(x) : x \in S}

\* the reports: no element for the source file, an element without any
\* child, or an element with line elements for some of the lines 1..MaxLine;
\* a class of dialect B may have no <lines> child
ReportsA ==
  {<<>>}
  \cup {<<[coord |-> CoordA, lines |-> <<>>, others |-> 0]>>}
  \cup {<<[coord |-> CoordA, lines |-> LinesA(f), others |-> 1]>> :
          f \in [1..MaxLine -> Optional(AttrsA)]}

ReportsB ==
  {<<>>}
  \cup {<<[coord |-> CoordB, lines |-> None, others |-> o]>> : o \in {0, 1}}
  \cup {<<[coord |-> CoordB, lines |-> Some(LinesB(f)), others |-> 1]>> :
          f \in [1..MaxLine -> Optional(AttrsB)]}

Reports(dialect) == IF dialect = "A" THEN ReportsA ELSE ReportsB

\* totals of HEAD's report that give a coverage of 70 percent
Head70(dialect) ==
  IF dialect = "A" THEN [missed |-> 30, total |-> 100] ELSE 7000

\* runs on small diffs and reports, the coverage having gone from 80 to 70
Init ==
  \E dialect \in {"A", "B"} :
    \E diff \in Diffs(dialect), report \in Reports(dialect) :
      Start([dialect |-> dialect, override_threshold |-> None, polls |-> Reported(8000),
             head |-> Head70(dialect), diff |-> diff, report |-> report,
             content |-> MaxLine + 1])

Spec == Init /\ [][Next]_vars

\* The hunk summaries of the runs that exercise the parsing of a diff: a
\* start of one, two or three digits, the count omitted, 0 or more.
MaxHunks == 2
HunkStarts == {1, 10, 120}
HunkCounts == {None, Some(0), Some(2), Some(11)}
Summaries ==
  {HunkSummary(7, Some(0), s, c) : s \in HunkStarts, c \in HunkCounts}

SummarySeqs == UNION {[1..k -> Summaries] : k \in 0..MaxHunks}

Source(dialect) == IF dialect = "A" THEN SourceA ELSE SourceB

\* a report of the source file: line 1 covered, line 2 not
PlainReport(dialect) ==
  IF dialect = "A"
  THEN <<[coord |-> CoordA, others |-> 1,
          lines |-> << [nr |-> <<"1">>, mi |-> <<"0">>, mb |-> <<"0">>],
                       [nr |-> <<"2">>, mi |-> <<"2">>, mb |-> <<"0">>] >>]>>
  ELSE <<[coord |-> CoordB, others |-> 1,
          lines |-> Some(<< [number |-> <<"1">>, hits |-> <<"1">>],
                            [number |-> <<"2">>, hits |-> <<"0">>] >>)]>>

\* the file diff of a deleted file: no "+++ b/<path>" line
Deleted == [name |-> None, summaries |-> <<HunkSummary(1, Some(3), 0, Some(0))>>]

\* runs on diffs of one changed file with any hunks
InitParse ==
  \E dialect \in {"A", "B"}, ss \in SummarySeqs :
    \E diff \in { <<[name |-> Source(dialect), summaries |-> ss]>>,
                  <<Deleted, [name |-> Source(dialect), summaries |-> ss]>> } :
      Start([dialect |-> dialect, override_threshold |-> None, polls |-> Reported(8000),
             head |-> Head70(dialect), diff |-> diff,
             report |-> PlainReport(dialect), content |-> 131])

SpecParse == InitParse /\ [][Next]_vars

\* The runs that exercise the arithmetic of the gate change one file, with
\* one hunk "+1,<n>"; the report has the first lines of the file covered, the
\* next ones not covered, and nothing for the last ones.
GateStats ==
  { [covered |-> 0,  uncovered |-> 0,  ignored |-> 0],
    [covered |-> 0,  uncovered |-> 0,  ignored |-> 3],
    [covered |-> 3,  uncovered |-> 1,  ignored |-> 0],
    [covered |-> 7,  uncovered |-> 3,  ignored |-> 0],
    [covered |-> 2,  uncovered |-> 5,  ignored |-> 1],
    [covered |-> 2,  uncovered |-> 6,  ignored |-> 0],
    [covered |-> 15, uncovered |-> 5,  ignored |-> 2],
    [covered |-> 23, uncovered |-> 17, ignored |-> 0],
    [covered |-> 94, uncovered |-> 6,  ignored |-> 0],
    [covered |-> 30, uncovered |-> 0,  ignored |-> 0] }

BlockLinesA(st) ==
  [k \in 1..(st.covered + st.uncovered) |->
     [nr |-> FormatInt(k), mb |-> <<"0">>,
      mi |-> IF k <= st.covered THEN <<"0">> ELSE <<"4">>]]

BlockLinesB(st) ==
  [k \in 1..(st.covered + st.uncovered) |->
     [number |-> FormatInt(k),
      hits |-> IF k <= st.covered THEN <<"1">> ELSE <<"0">>]]

BlockReport(dialect, st) ==
  IF dialect = "A"
  THEN <<[coord |-> CoordA, others |-> 1, lines |-> BlockLinesA(st)]>>
  ELSE <<[coord |-> CoordB, others |-> 1, lines |-> Some(BlockLinesB(st))]>>

BlockDiff(dialect, st) ==
  <<[name |-> Source(dialect),
     summaries |-> <<HunkSummary(1, None, 1,
                       Some(st.covered + st.uncovered + st.ignored))>>]>>

\* coverages of the reference commit, in hundredths of a percent point
Baselines == {5750, 7040, 7500, 9500, 10000}

\* totals of HEAD's report: 50, 60.4, 66.6667, 85 and 100 percent
Heads(dialect) ==
  IF dialect = "A"
  THEN { [missed |-> 1, total |-> 2], [missed |-> 396, total |-> 1000],
         [missed |-> 1, total |-> 3], [missed |-> 15, total |-> 100],
         [missed |-> 0, total |-> 0] }
  ELSE {5000, 6040, 6667, 8500, 10000}

\* the override_threshold argument of fail_on_coverage, in hundredths
Overrides(dialect) ==
  IF dialect = "A" THEN {None, Some(0), Some(8000)} ELSE {None}

InitGate ==
  \E dialect \in {"A", "B"}, st \in GateStats, baseline \in Baselines :
    \E head \in Heads(dialect), override \in Overrides(dialect),
       more \in {0, 3} :
      Start([dialect |-> dialect, override_threshold |-> override,
             content |-> st.covered + st.uncovered + st.ignored + more,
             polls |-> Reported(baseline), head |-> head,
             diff |-> BlockDiff(dialect, st),
             report |-> BlockReport(dialect, st)])

SpecGate == InitGate /\ [][Next]_vars


\* the most responses of GitLab that differ from the one before
MaxPolls == 2

\* a status of the reference commit
Status(name, status, reported, created_at) ==
  [name |-> name, status |-> status, coverage |-> reported,
   created_at |-> created_at]

\* what GitLab answers: the statuses of the commit's jobs, or a failure
Ok(json) == [status_code |-> 200, json |-> json]
NotFound == [status_code |-> 404, json |-> <<>>]

Responses ==
  { NotFound,
    Ok(<<>>),
    Ok(<<Status("coverage", "success", Some(8000), 1)>>),
    Ok(<<Status("coverage", "success", Some(8000), 1),
         Status("coverage", "success", Some(9000), 2)>>),
    Ok(<<Status("coverage", "success", Some(9000), 2),
         Status("coverage", "success", Some(8000), 1)>>),
    Ok(<<Status("coverage", "success", Some(8000), 1),
         Status("coverage", "success", Some(8500), 1)>>),
    Ok(<<Status("coverage", "success", Some(8000), 1),
         Status("test", "success", Some(7500), 3)>>),
    Ok(<<Status("test", "success", Some(7500), 3)>>),
    Ok(<<Status("coverage", "running", None, 2)>>),
    Ok(<<Status("coverage", "running", None, 2),
         Status("coverage", "success", Some(8000), 1)>>),
    Ok(<<Status("test", "running", None, 1),
         Status("coverage", "failed", None, 2)>>),
    Ok(<<Status("coverage", "failed", Some(9000), 3),
         Status("coverage", "success", Some(8000), 1)>>),
    Ok(<<Status("coverage", "failed", None, 1)>>),
    Ok(<<Status("build", "running", None, 1),
         Status("coverage", "success", None, 2)>>) }

\* runs on any responses of GitLab, the diff being one hunk of the source file
InitPoll ==
  \E dialect \in {"A", "B"}, n \in 1..MaxPolls :
    \E polls \in [1..n -> Responses] :
      Start([dialect |-> dialect, override_threshold |-> None,
             polls |-> polls, head |-> Head70(dialect),
             diff |-> <<[name |-> Source(dialect),
                         summaries |-> <<HunkSummary(1, None, 1, Some(3))>>]>>,
             report |-> PlainReport(dialect), content |-> 3])

SpecPoll == InitPoll /\ [][Next]_vars

\* the program goes on as long as it can: time.sleep(20) returns and
\* get_results answers
SpecPollFair == SpecPoll /\ WF_vars(CallLatest) /\ WF_vars(Poll)

(***************************************************************************)
(* Properties of the run                                                   *)
(***************************************************************************)
\* the coverage map get_diff_coverage looks up for the k-th change
MapOf(k) == _get_coverage_map(args.dialect, args.report, diff_changes[k].file)

\* the changes the loop of get_diff_coverage has passed
Processed == 1..(idx - 1)

\* how many entries of lines_changed satisfy P
CountOf(lines, P(_)) == Cardinality({p \in 1..Len(lines) : P(lines[p])})

\* C1: the Counter _reconcile_coverage returns for a change counts every
\* entry of lines_changed once: ignored iff the line is not in the coverage
\* map, covered iff it is there with True, uncovered iff it is there with
\* False; the three counts add up to len(lines_changed).
C1_ReconcilePartition ==
  \A k \in Processed :
    LET change == diff_changes[k]
        lines == change.lines_changed
        coverage_map == MapOf(k)
        Absent(l) == ~InMap(l, coverage_map)
        True(l) == InMap(l, coverage_map) /\ coverage_map.map[l]
        False(l) == InMap(l, coverage_map) /\ ~coverage_map.map[l]
    IN  coverage_map.kind \in {"list", "dict"} =>
          /\ change.file \in DOMAIN file_stats
          /\ LET stats == file_stats[change.file]
             IN  /\ stats.ignored = CountOf(lines, Absent)
                 /\ stats.covered = CountOf(lines, True)
                 /\ stats.uncovered = CountOf(lines, False)
                 /\ stats.covered + stats.uncovered + stats.ignored = Len(lines)

\* a change with a covered, an uncovered and an ignored line has been counted
C1_Witness ==
  \E k \in Processed :
    /\ MapOf(k).kind = "dict"
    /\ diff_changes[k].file \in DOMAIN file_stats
    /\ LET stats == file_stats[diff_changes[k].file]
       IN  stats.covered >= 1 /\ stats.uncovered >= 1 /\ stats.ignored >= 1

\* the double 0.75 = 3 * 2^-2
ThreeQuarters == [m |-> <<1, 1>>, e |-> -2]

\* the baseline fraction main hands to get_diff_coverage: coverage / 100
BaselineFraction == FDiv(coverage, 100)

C2_WitnessAbove ==
  /\ pc = "decide" /\ args.dialect = "A"
  /\ line_stats.uncovered = 6
  /\ target_coverage = BaselineFraction /\ target_coverage # ThreeQuarters

\* the run went into get_diff_coverage and came back without an exception
GateEvaluated ==
  pc = "exit" /\ raised = None /\ idx >= 1 /\ idx > Len(diff_changes)

\* the diff has no line the report knows
NothingAttributable == line_stats.covered + line_stats.uncovered = 0

\* C4: when covered + uncovered = 0, get_diff_coverage raises nothing, takes
\* the diff coverage to be 1.0 (100 percent), builds no message, and main's
\* comparison of the diff coverage with the target does not fail the run.
C4_NothingAttributable ==
  (pc \in {"decide", "exit"} /\ raised = None /\ idx >= 1
     /\ idx > Len(diff_changes) /\ NothingAttributable) =>
    /\ total_coverage = FromInt(1)
    /\ diff_coverage = FromInt(100)
    /\ message = None
    /\ ~Less(diff_coverage, target_percent)
    /\ (pc = "exit" =>
          /\ printed = None
          /\ (exit_code = Some(1) =>
                Less(Ten, SubExact(coverage, current_coverage))))

\* a diff of ignored lines only has passed the gate
C4_Witness ==
  /\ GateEvaluated
  /\ NothingAttributable /\ line_stats.ignored > 0
  /\ total_coverage = FromInt(1)
  /\ exit_code = Some(0)

\* the exact difference of the two coverages main holds exceeds 10
DropExceedsTen ==
  Less(current_coverage, coverage)
    /\ Less(Ten, SubExact(coverage, current_coverage))

C10_WitnessExactlyTen ==
  /\ GateEvaluated /\ ~Less(diff_coverage, target_percent)
  /\ SubExact(coverage, current_coverage) = Ten /\ exit_code = Some(0)

\* covered / (covered + uncovered) is strictly below the target fraction
\* get_diff_coverage applied (1.0 stands for a diff without attributable
\* lines)
DiffBelowTarget ==
  LET line_count == line_stats.covered + line_stats.uncovered
  IN  IF line_count = 0 THEN Less(FromInt(1), target_coverage)
      ELSE Less(FromInt(line_stats.covered),
                MulExact(target_coverage, line_count))

\* C3: a run that evaluates the gate exits 1 with the report printed iff the
\* diff coverage is strictly below the target; when it is equal to or above
\* the target the run does not fail unless the 10-point rule fires.
C3_GateDecision ==
  GateEvaluated =>
    /\ (DiffBelowTarget =>
          exit_code = Some(1) /\ printed # None /\ printed # Some(None))
    /\ (~DiffBelowTarget =>
          /\ printed = None
          /\ (exit_code = Some(1) <=> DropExceedsTen))

\* the exact ceiling of target * line_count - covered
ExactLinesRequired ==
  LET line_count == line_stats.covered + line_stats.uncovered
  IN  Ceil(SubExact(MulExact(target_coverage, line_count),
                    FromInt(line_stats.covered)))

\* C9: the lines_required of the message is the exact ceiling of
\* (target - diff coverage) * (covered + uncovered): 1 for covered = 94,
\* uncovered = 6 against 0.95, and 1 for covered = 7, uncovered = 3 where
\* the target is 0.75.
C9_LinesRequired ==
  (pc = "decide" /\ message # None) =>
    message[1].lines_required = ExactLinesRequired

\* the lookup found no line of the file: the list [] of a missing or
\* childless element, or the empty dict of an element without line elements
NoLineData(coverage_map) ==
  \/ coverage_map.kind = "list"
  \/ coverage_map.kind = "dict" /\ DOMAIN coverage_map.map = {}

\* the loop of get_diff_coverage is at a change whose lookup finds no line of
\* the file
AtNoLineData ==
  /\ pc = "reconcile" /\ idx >= 1 /\ idx <= Len(diff_changes)
  /\ NoLineData(MapOf(idx))

Rendered ==
  IF message = None THEN {}
  ELSE {message[1].untested[k].file : k \in 1..Len(message[1].untested)}

\* C6: a change whose lookup returns None leaves the aggregate Counter and
\* file_stats as they are, so the file has no file_stats entry, and the file
\* is not among the files of the rendered report.
C6_NullLookupFrame ==
  /\ [][(pc = "reconcile" /\ idx >= 1 /\ idx <= Len(diff_changes)
           /\ MapOf(idx).kind = "None")
          => (line_stats' = line_stats /\ file_stats' = file_stats)]_vars
  /\ [](\A k \in Processed :
          MapOf(k).kind = "None" =>
            /\ diff_changes[k].file \notin DOMAIN file_stats
            /\ diff_changes[k].file \notin Rendered)

\* a file without coverage map has been passed over next to a file that is
\* in the rendered report
C6_Witness ==
  /\ pc = "decide" /\ message # None /\ Rendered # {}
  /\ \E k \in Processed :
       /\ MapOf(k).kind = "None"
       /\ Len(diff_changes[k].lines_changed) > 0
  /\ line_stats.ignored + line_stats.covered + line_stats.uncovered
       = MaxLine + 1

\* the numbers a hunk summary was written from
HunkOf(line_summary) ==
  CHOOSE h \in HunkStarts \X HunkCounts :
    line_summary = HunkSummary(7, Some(0), h[1], h[2])

\* the range [start, start + count) of a hunk, the single line start when
\* the count is omitted
RangeOf(line_summary) ==
  LET h == HunkOf(line_summary) IN
  IF h[2] = None THEN <<h[1]>> ELSE [k \in 1..h[2][1] |-> h[1] + k - 1]

CountOfHunk(line_summary) ==
  LET h == HunkOf(line_summary) IN IF h[2] = None THEN 1 ELSE h[2][1]

RECURSIVE Sum(_)
Sum(ns) == IF ns = <<>> THEN 0 ELSE Head(ns) + Sum(Tail(ns))

\* the hunk summaries of the last file diff of the text
LastSummaries == args.diff[Len(args.diff)].summaries

\* C7: the lines_changed of a file segment is the concatenation, in hunk
\* order, of [start, start + count) for a hunk with a count and of the line
\* start for a hunk without; its length is the sum of the counts, an omitted
\* count taken as 1.
C7_LinesChanged ==
  (idx >= 1 /\ \A k \in 1..Len(LastSummaries) : LastSummaries[k] \in Summaries) =>
    /\ Len(diff_changes) = 1
    /\ LET lines == diff_changes[1].lines_changed
           ss == LastSummaries
       IN  /\ lines = Chain([k \in 1..Len(ss) |-> RangeOf(ss[k])])
           /\ Len(lines) = Sum([k \in 1..Len(ss) |-> CountOfHunk(ss[k])])

\* a segment of a hunk without count and a hunk of count 0 has been parsed
C7_Witness ==
  /\ idx >= 1
  /\ LastSummaries = <<HunkSummary(7, Some(0), 10, None),
                       HunkSummary(7, Some(0), 120, Some(0))>>
  /\ diff_changes[1].lines_changed = <<10>>

\* ... and a segment of two ranges
C7_WitnessRanges ==
  /\ idx >= 1
  /\ LastSummaries = <<HunkSummary(7, Some(0), 120, Some(2)),
                       HunkSummary(7, Some(0), 1, Some(11))>>
  /\ diff_changes[1].lines_changed
       = <<120, 121, 1, 2, 3, 4, 5, 6, 7, 8, 9, 10, 11>>

\* the last line element the class of the source file has for line n
LastLineB(n) ==
  LET ls == args.report[1].lines[1]
  IN  ls[Max({k \in 1..Len(ls) : ParseInt(ls[k].number) = n})]

\* C8: in get_diff_coverage2 a line the report records is covered iff its
\* hits are positive and uncovered iff they are 0, so a changed file's
\* Counter has the recorded changed lines with hits >= 1 as covered and
\* those with hits = 0 as uncovered.
C8_PositiveHits ==
  \A k \in Processed :
    (args.dialect = "B" /\ MapOf(k).kind = "dict") =>
      LET lines == diff_changes[k].lines_changed
          stats == file_stats[diff_changes[k].file]
          Hit(l) == InMap(l, MapOf(k)) /\ ParseInt(LastLineB(l).hits) >= 1
          NotHit(l) == InMap(l, MapOf(k)) /\ ParseInt(LastLineB(l).hits) = 0
      IN  /\ stats.covered = CountOf(lines, Hit)
          /\ stats.uncovered = CountOf(lines, NotHit)

\* the status is successful and has a coverage
Successful(s) == s.status = "success" /\ s.coverage # None

\* C11 as stated: what get_latest_coverage returns is the coverage of a
\* status of the last poll that is successful with a coverage, and no such
\* status of the poll was created later.
C11_LatestOfSuccessful ==
  latest # None =>
    \E k \in 1..Len(statuses) :
      /\ Successful(statuses[k])
      /\ statuses[k].coverage = latest
      /\ \A j \in 1..Len(statuses) :
           Successful(statuses[j])
             => statuses[j].created_at <= statuses[k].created_at

\* the statuses get_latest_coverage chooses from: fail_on_coverage takes only
\* those of a job with "coverage" in its name
Eligible(s) == Successful(s) /\ (args.dialect = "A" => s.name = "coverage")

\* C11, amended: what get_latest_coverage returns is the coverage of a
\* status of the last poll that is successful with a coverage (and, in
\* fail_on_coverage, of a job named coverage), and no such status of the
\* poll was created later; it is never the coverage of a running or a failed
\* status only.
C11_LatestOfEligible ==
  latest # None =>
    \E k \in 1..Len(statuses) :
      /\ Eligible(statuses[k])
      /\ statuses[k].coverage = latest
      /\ \A j \in 1..Len(statuses) :
           Eligible(statuses[j])
             => statuses[j].created_at <= statuses[k].created_at

\* the later of two successful statuses, listed first, has been returned after
\* a poll that only showed a running job
C11_Witness ==
  /\ latest = Some(9000) /\ waiting /\ polled = 2
  /\ Len(statuses) = 2 /\ statuses[1].created_at > statuses[2].created_at
  /\ Eligible(statuses[1]) /\ Eligible(statuses[2])

\* the statuses show a successful coverage status
ShowsSuccess(ss) == \E k \in 1..Len(ss) : Eligible(ss[k])

\* the statuses show a running test or coverage job
ShowsRunning(ss) ==
  \E k \in 1..Len(ss) :
    ss[k].name \in {"test", "coverage"} /\ ss[k].status = "running"

\* get_latest_coverage has returned or raised
PollingOver == pc \notin {"start", "poll"}

\* C12 as stated: a pass of the loop raises exactly when the poll it looks
\* at shows no successful coverage status and no running test or coverage
\* job, and goes on polling when it shows such a job and no success;
\* get_latest_coverage ends iff some poll shows a success or no running job.
C12_AbortsExactly ==
  /\ [][pc = "poll" =>
          /\ (raised' # None
                <=> ~ShowsSuccess(statuses) /\ ~ShowsRunning(statuses))
          /\ (~ShowsSuccess(statuses) /\ ShowsRunning(statuses) => pc' = "poll")
       ]_vars
  /\ ((\E k \in 1..Len(args.polls) :
         ShowsSuccess(args.polls[k].json) \/ ~ShowsRunning(args.polls[k].json))
      => <>PollingOver)
  /\ ((\A k \in 1..Len(args.polls) :
         ~ShowsSuccess(args.polls[k].json) /\ ShowsRunning(args.polls[k].json))
      => []~PollingOver)

\* the poll failed, or it shows a success or no running job
Final(response) ==
  \/ response.status_code # 200
  \/ ShowsSuccess(response.json)
  \/ ~ShowsRunning(response.json)

\* C12, amended: a pass of the loop returns when the poll it looks at shows
\* a successful coverage status; it raises when the poll shows neither that
\* nor a running test or coverage job; otherwise it polls again, which raises
\* if the request fails and else goes on with the new statuses.
\* get_latest_coverage ends iff some poll fails or shows a success or no
\* running job.
C12_Polling ==
  /\ [][pc = "poll" =>
          /\ (ShowsSuccess(statuses)
                => latest' # None /\ raised' = None /\ pc' = "main")
          /\ (~ShowsSuccess(statuses) /\ ~ShowsRunning(statuses)
                => raised' # None /\ exit_code' = Some(1) /\ latest' = None)
          /\ (~ShowsSuccess(statuses) /\ ShowsRunning(statuses)
                => /\ latest' = None
                   /\ IF NextResponse.status_code = 200
                      THEN /\ raised' = None /\ pc' = "poll"
                           /\ statuses' = NextResponse.json
                      ELSE raised' # None /\ exit_code' = Some(1))
       ]_vars
  /\ ((\E k \in 1..Len(args.polls) : Final(args.polls[k])) => <>PollingOver)
  /\ ((\A k \in 1..Len(args.polls) : ~Final(args.polls[k])) => []~PollingOver)

\* get_latest_coverage has raised after it had waited: the jobs that were
\* running have failed
C12_Witness ==
  /\ raised # None /\ waiting /\ polled = 2
  /\ statuses # <<>>
  /\ ~ShowsSuccess(statuses) /\ ~ShowsRunning(statuses)

\* get_latest_coverage waits on, GitLab showing the same running job
C12_WitnessWaiting ==
  /\ pc = "poll" /\ waiting /\ polled = Len(args.polls)
  /\ ~ShowsSuccess(statuses) /\ ShowsRunning(statuses)
  /\ NextResponse = Ok(statuses)

\* the permutations of 1..n
Perms(n) == {f \in [1..n -> 1..n] : \A i, j \in 1..n : f[i] = f[j] => i = j}

\* the sequence q in the order f
Permuted(q, f) == [i \in 1..Len(q) |-> q[f[i]]]

\* q without its k-th entry
Without(q, k) == [i \in 1..(Len(q) - 1) |-> IF i < k THEN q[i] ELSE q[i + 1]]

\* the changes with the lines of the k-th in the order f
WithLines(changes, k, f) ==
  [changes EXCEPT ![k].lines_changed = Permuted(changes[k].lines_changed, f)]

\* get_diff_coverage has left its loop without an exception
LoopDone == pc \in {"decide", "exit"} /\ raised = None /\ idx >= 1

\* C13: the line_stats of get_diff_coverage is what the loop gives for the
\* changes in any other order, and for the lines of any change in any other
\* order; adding the Counter of one change to the line_stats of the others
\* gives the same.
C13_OrderIndependent ==
  LoopDone =>
    LET Total(changes) == Aggregate(args.dialect, args.report, changes)
        n == Len(diff_changes)
    IN  /\ \A f \in Perms(n) : Total(Permuted(diff_changes, f)) = line_stats
        /\ \A k \in 1..n :
             /\ \A f \in Perms(Len(diff_changes[k].lines_changed)) :
                  Total(WithLines(diff_changes, k, f)) = line_stats
             /\ AddStats(Total(Without(diff_changes, k)), Total(<<diff_changes[k]>>))
                  = line_stats

\* two files with different Counters have been reconciled
C13_Witness ==
  /\ LoopDone /\ Len(diff_changes) = 2
  /\ Attributable(MapOf(1)) /\ Attributable(MapOf(2))
  /\ file_stats[diff_changes[1].file] # file_stats[diff_changes[2].file]
  /\ line_stats.covered >= 1 /\ line_stats.uncovered >= 1
  /\ line_stats.ignored >= MaxLine + 1

\* what a rendered file displays: the keys of its coverage dictionary
Displayed(file) ==
  {file.lines_to_display[i] : i \in 1..Len(file.lines_to_display)}

\* the 1-based window of an uncovered line in a file of n lines
OneBasedWindow(line, p, n) ==
  (IF line - p > 1 THEN line - p ELSE 1)..(IF line + p < n THEN line + p ELSE n)

\* C14: for a rendered file of N lines whose uncovered lines are all in 1..N,
\* the displayed line numbers are exactly the union of the 1-based windows
\* max(1, L - p)..min(N, L + p) of its uncovered lines L: every uncovered
\* line is displayed, none outside 1..N is, and none is displayed twice.
C14_DisplayedWindow ==
  message # None =>
    \A k \in 1..Len(message[1].untested) :
      LET file == message[1].untested[k]
          U == {file.uncovered_lines[i] : i \in 1..Len(file.uncovered_lines)}
      IN  (\A L \in U : 1 <= L /\ L <= args.content) =>
            /\ Displayed(file)
                 = UNION {OneBasedWindow(L, Buffer, args.content) : L \in U}
            /\ U \subseteq Displayed(file)
            /\ Displayed(file) \subseteq 1..args.content
            /\ Cardinality(Displayed(file)) = Len(file.lines_to_display)

\* k more covered lines bring the diff to the target:
\* (covered + k) / (covered + uncovered) >= target, in exact arithmetic
MeetsTarget(k) ==
  ~Less(FromInt(line_stats.covered + k),
        MulExact(target_coverage, line_stats.covered + line_stats.uncovered))

\* the target is in [0, 1]
TargetInUnit ==
  ~Less(target_coverage, Zero) /\ ~Less(FromInt(1), target_coverage)

\* C15: when get_diff_coverage produces a failure message for a target in
\* [0, 1], its lines_required is between 1 and the number of uncovered lines
\* and is the least k with (covered + k) / (covered + uncovered) >= target.
C15_LeastLinesRequired ==
  (pc = "decide" /\ message # None /\ TargetInUnit) =>
    LET k == message[1].lines_required
    IN  /\ 1 <= k /\ k <= line_stats.uncovered
        /\ MeetsTarget(k)
        /\ \A j \in 0..(k - 1) : ~MeetsTarget(j)

\* main has compared current_coverage with coverage
MainDone ==
  \/ pc \in {"diff", "reconcile", "decide"}
  \/ pc = "exit" /\ (raised = None \/ idx >= 1)

\* get_diff_coverage is or has been called
DiffReached == pc = "diff" \/ idx >= 1

\* C16: get_diff_coverage is reached only when current_coverage is strictly
\* below coverage and no override threshold was given; when current_coverage
\* is at least coverage, or an override threshold is supplied, the run exits
\* 0 without evaluating the diff, whatever the diff's line counts are.
C16_GateGuard ==
  MainDone =>
    /\ DiffReached =>
         Less(current_coverage, coverage) /\ args.override_threshold = None
    /\ (~Less(current_coverage, coverage) \/ args.override_threshold # None) =>
         /\ pc = "exit" /\ exit_code = Some(0) /\ raised = None
         /\ ~DiffReached /\ message = None /\ printed = None

====
